---- MODULE Spec2Model ----
(***************************************************************************)
(* Conversation-history management of streamlit_app.py: the truncator      *)
(* limit_message_history, the validator validate_message_history, and the  *)
(* turn orchestration run_agent_with_streaming together with the sidebar   *)
(* controls of main (clear button, max-messages slider).                   *)
(*                                                                         *)
(* A message is modelled by the ordered sequence of the kinds of its       *)
(* Parts: both functions inspect nothing else of a message (payloads and   *)
(* the Request/Response distinction are never read by them).               *)
(***************************************************************************)
EXTENDS Integers, Sequences, FiniteSets, TLC

(* ------------------------------ bounds -------------------------------- *)
MaxLen == 3        \* longest history given to the functions in FnSpec
MaxBound == 3      \* largest max_messages argument tried in FnSpec
MaxHist == 5       \* a turn is explored only while stored + new <= MaxHist
MaxNew == 2        \* most messages one turn's new_messages() returns
MaxChunks == 2     \* most text deltas one stream yields

(* ------------------------- program constants -------------------------- *)
MAX_MESSAGES == 10
SliderMin == 3
SliderMax == 20
SliderStep == 5

SliderValues == {v \in SliderMin..SliderMax : (v - SliderMin) % SliderStep = 0}

(* --------------------------- message parts ---------------------------- *)
IsToolCallPart(part) == part = "tool-call"
IsToolReturnPart(part) == part = "tool-return"
IsOtherPart(part) == ~IsToolCallPart(part) /\ ~IsToolReturnPart(part)

\* message shapes the functions are exercised on
MsgShapes ==
    { <<>>, <<"text">>, <<"user-prompt">>, <<"tool-call">>, <<"tool-return">>,
      <<"tool-return", "tool-return">>, <<"tool-call", "tool-return">>,
      <<"tool-return", "tool-call">> }

\* message shapes the agent returns from new_messages() in the session model
AgentShapes == { <<"text">>, <<"tool-call">>, <<"tool-return">>, <<>> }

RECURSIVE SeqsUpTo(_, _)
SeqsUpTo(S, n) ==
    IF n = 0 THEN { <<>> }
    ELSE LET shorter == SeqsUpTo(S, n - 1)
         IN shorter \cup { Append(s, x) : s \in {t \in shorter : Len(t) = n - 1}, x \in S }

Min(a, b) == IF a <= b THEN a ELSE b
Max(a, b) == IF a >= b THEN a ELSE b

(* ------------------------ limit_message_history ----------------------- *)
\* Python's s[start:] : a negative start counts from the end, and both are
\* clamped to the list; note that -0 is 0, so s[-0:] is the whole list.
PySliceFrom(s, start) ==
    LET n == Len(s)
        lo == IF start < 0 THEN Max(n + start, 0) ELSE Min(start, n)
    IN SubSeq(s, lo + 1, n)

\* the slice written without the minus sign: messages[max_messages:]
limit_missing_minus(messages, max_messages) ==
    IF Len(messages) <= max_messages THEN messages
    ELSE PySliceFrom(messages, max_messages)

limit_message_history(messages, max_messages) ==
    IF Len(messages) <= max_messages THEN messages
    ELSE PySliceFrom(messages, 0 - max_messages)

(* ---------------------- validate_message_history ---------------------- *)
\* tool_calls_stack.pop(0), once per tool return while the stack is non-empty
RECURSIVE PopFront(_, _)
PopFront(stack, n) ==
    IF n = 0 \/ stack = <<>> THEN stack ELSE PopFront(Tail(stack), n - 1)

\* the two tool branches written as independent ifs instead of if/elif
ValidateMsgIfIf(st, msg) ==
    LET msg_tool_calls == SelectSeq(msg, IsToolCallPart)
        msg_tool_returns == SelectSeq(msg, IsToolReturnPart)
        other_parts == SelectSeq(msg, IsOtherPart)
        st1 == IF msg_tool_calls # <<>>
               THEN [validated |-> Append(st.validated, msg),
                     stack |-> st.stack \o msg_tool_calls]
               ELSE st
    IN IF msg_tool_returns # <<>>
       THEN IF st1.stack # <<>>
            THEN [validated |-> Append(st1.validated, msg),
                  stack |-> PopFront(st1.stack, Len(msg_tool_returns))]
            ELSE st1
       ELSE IF msg_tool_calls = <<>> /\ other_parts # <<>>
            THEN [validated |-> Append(st1.validated, msg), stack |-> st1.stack]
            ELSE st1

\* the pending-call test left out: tool returns are always kept
ValidateMsgKeepOrphans(st, msg) ==
    LET msg_tool_calls == SelectSeq(msg, IsToolCallPart)
        msg_tool_returns == SelectSeq(msg, IsToolReturnPart)
        other_parts == SelectSeq(msg, IsOtherPart)
    IN IF msg_tool_calls # <<>>
       THEN [validated |-> Append(st.validated, msg),
             stack |-> st.stack \o msg_tool_calls]
       ELSE IF msg_tool_returns # <<>>
       THEN [validated |-> Append(st.validated, msg),
             stack |-> PopFront(st.stack, Len(msg_tool_returns))]
       ELSE IF other_parts # <<>>
       THEN [validated |-> Append(st.validated, msg), stack |-> st.stack]
       ELSE st

\* body of the for loop: one message against (validated_messages, tool_calls_stack)
ValidateMsg(st, msg) ==
    LET msg_tool_calls == SelectSeq(msg, IsToolCallPart)
        msg_tool_returns == SelectSeq(msg, IsToolReturnPart)
        other_parts == SelectSeq(msg, IsOtherPart)
    IN IF msg_tool_calls # <<>>
       THEN [validated |-> Append(st.validated, msg),
             stack |-> st.stack \o msg_tool_calls]
       ELSE IF msg_tool_returns # <<>>
       THEN IF st.stack # <<>>
            THEN [validated |-> Append(st.validated, msg),
                  stack |-> PopFront(st.stack, Len(msg_tool_returns))]
            ELSE st
       ELSE IF other_parts # <<>>
       THEN [validated |-> Append(st.validated, msg), stack |-> st.stack]
       ELSE st

RECURSIVE ValidateLoop(_, _, _)
ValidateLoop(st, messages, i) ==
    IF i > Len(messages) THEN st
    ELSE ValidateLoop(ValidateMsg(st, messages[i]), messages, i + 1)

validate_message_history(messages) ==
    IF messages = <<>> THEN messages
    ELSE ValidateLoop([validated |-> <<>>, stack |-> <<>>], messages, 1).validated

(* ------------------------------- state -------------------------------- *)
VARIABLES
    messages,             \* st.session_state.messages
    custom_max_messages,  \* st.session_state.custom_max_messages
    pc,                   \* position of run_agent_with_streaming: "Idle" | "Streaming"
    chunks,               \* text deltas yielded so far by the current stream
    limited_messages,     \* local of run_agent_with_streaming
    validated_messages,   \* local of run_agent_with_streaming (handed to the agent)
    outcome,              \* how the last turn ended: "none" | "done" | "failed" | "cancelled"
    cleared,              \* history: the clear action fired during the turn in flight
    arg_messages,         \* FnSpec: the list passed to the function under test
    arg_max,              \* FnSpec: the max_messages argument
    fn,                   \* FnSpec: function under test, "none" | "limit" | "validate"
    pass,                 \* FnSpec: number of applications made so far
    ret1,                 \* FnSpec: result of the first application
    ret2                  \* FnSpec: result of applying the function to ret1

sessionVars == <<messages, custom_max_messages, pc, chunks, limited_messages,
                 validated_messages, outcome, cleared>>
fnVars == <<arg_messages, arg_max, fn, pass, ret1, ret2>>
vars == <<messages, custom_max_messages, pc, chunks, limited_messages,
          validated_messages, outcome, cleared,
          arg_messages, arg_max, fn, pass, ret1, ret2>>

\* session state after the first script run of main
SessionInit ==
    /\ messages = <<>>
    /\ custom_max_messages = MAX_MESSAGES
    /\ pc = "Idle"
    /\ chunks = 0
    /\ limited_messages = <<>>
    /\ validated_messages = <<>>
    /\ outcome = "none"
    /\ cleared = FALSE

FnIdle ==
    /\ arg_messages = <<>>
    /\ arg_max = 0
    /\ fn = "none"
    /\ pass = 0
    /\ ret1 = <<>>
    /\ ret2 = <<>>

Init == SessionInit /\ FnIdle

(* ---------------------- run_agent_with_streaming ---------------------- *)
\* lines 155-165: truncate and validate into locals, open the stream
StartTurnStoring ==
    /\ pc = "Idle"
    /\ limited_messages' = limit_message_history(messages, custom_max_messages)
    /\ validated_messages' = validate_message_history(limited_messages')
    /\ messages' = validated_messages'
    /\ pc' = "Streaming"
    /\ chunks' = 0
    /\ cleared' = FALSE
    /\ outcome' = "none"
    /\ UNCHANGED <<custom_max_messages, arg_messages, arg_max, fn, pass, ret1, ret2>>

StartTurn ==
    /\ pc = "Idle"
    /\ limited_messages' = limit_message_history(messages, custom_max_messages)
    /\ validated_messages' = validate_message_history(limited_messages')
    /\ pc' = "Streaming"
    /\ chunks' = 0
    /\ cleared' = FALSE
    /\ outcome' = "none"
    /\ UNCHANGED <<messages, custom_max_messages, arg_messages, arg_max, fn, pass, ret1, ret2>>

\* lines 168-169: one text delta is yielded to the caller
StreamChunk ==
    /\ pc = "Streaming"
    /\ chunks < MaxChunks
    /\ chunks' = chunks + 1
    /\ UNCHANGED <<messages, custom_max_messages, pc, limited_messages,
                   validated_messages, outcome, cleared, fnVars>>

\* the post-turn truncation of line 175 left out
AppendNewMessagesNoLimit ==
    /\ pc = "Streaming"
    /\ \E new_messages \in SeqsUpTo(AgentShapes, MaxNew) :
          /\ Len(messages) + Len(new_messages) <= MaxHist
          /\ messages' = messages \o new_messages
    /\ pc' = "Idle"
    /\ outcome' = "done"
    /\ limited_messages' = <<>>
    /\ validated_messages' = <<>>
    /\ UNCHANGED <<custom_max_messages, chunks, cleared, fnVars>>

\* lines 171-175: the stream is exhausted; extend with new_messages(), truncate
AppendNewMessages ==
    /\ pc = "Streaming"
    /\ \E new_messages \in SeqsUpTo(AgentShapes, MaxNew) :
          /\ Len(messages) + Len(new_messages) <= MaxHist
          /\ messages' = limit_message_history(messages \o new_messages,
                                               custom_max_messages)
    /\ pc' = "Idle"
    /\ outcome' = "done"
    /\ limited_messages' = <<>>
    /\ validated_messages' = <<>>
    /\ UNCHANGED <<custom_max_messages, chunks, cleared, fnVars>>

\* the agent call raises inside the async with / async for: lines 172-175 are skipped
StreamFails ==
    /\ pc = "Streaming"
    /\ pc' = "Idle"
    /\ outcome' = "failed"
    /\ limited_messages' = <<>>
    /\ validated_messages' = <<>>
    /\ UNCHANGED <<messages, custom_max_messages, chunks, cleared, fnVars>>

\* the consumer stops iterating the generator: lines 172-175 are never reached
StreamCancelled ==
    /\ pc = "Streaming"
    /\ pc' = "Idle"
    /\ outcome' = "cancelled"
    /\ limited_messages' = <<>>
    /\ validated_messages' = <<>>
    /\ UNCHANGED <<messages, custom_max_messages, chunks, cleared, fnVars>>

(* --------------------------- sidebar controls ------------------------- *)
\* lines 65-76: both branches leave st.session_state.messages = []
clear_chat_history ==
    /\ messages' = <<>>
    /\ cleared' = (cleared \/ pc = "Streaming")
    /\ UNCHANGED <<custom_max_messages, pc, chunks, limited_messages,
                   validated_messages, outcome, fnVars>>

\* the slider handler storing the new limit without re-truncating
SetLimitNoTruncate ==
    \E new_limit \in SliderValues :
        /\ new_limit # custom_max_messages
        /\ custom_max_messages' = new_limit
        /\ UNCHANGED <<messages, pc, chunks, limited_messages, validated_messages,
                       outcome, cleared, fnVars>>

\* lines 226-241: the slider returns a value different from the stored one
SetLimit ==
    \E new_limit \in SliderValues :
        /\ new_limit # custom_max_messages
        /\ custom_max_messages' = new_limit
        /\ messages' = limit_message_history(messages, new_limit)
        /\ UNCHANGED <<pc, chunks, limited_messages, validated_messages,
                       outcome, cleared, fnVars>>

ClearWhenIdle == pc = "Idle" /\ clear_chat_history
SetLimitWhenIdle == pc = "Idle" /\ SetLimit

\* the controls may fire at any point of a turn
Next ==
    \/ StartTurn
    \/ StreamChunk
    \/ AppendNewMessages
    \/ StreamFails
    \/ StreamCancelled
    \/ clear_chat_history
    \/ SetLimit

Spec == Init /\ [][Next]_vars

\* turns, clears and setting changes never overlap
SeqNext ==
    \/ StartTurn
    \/ StreamChunk
    \/ AppendNewMessages
    \/ StreamFails
    \/ StreamCancelled
    \/ ClearWhenIdle
    \/ SetLimitWhenIdle

SeqSpec == Init /\ [][SeqNext]_vars

(* --------------------- the two functions in isolation ----------------- *)
FnInit ==
    /\ SessionInit
    /\ arg_messages \in SeqsUpTo(MsgShapes, MaxLen)
    /\ arg_max \in 0..MaxBound
    /\ fn = "none"
    /\ pass = 0
    /\ ret1 = <<>>
    /\ ret2 = <<>>

CallLimit ==
    /\ pass = 0
    /\ fn' = "limit"
    /\ pass' = 1
    /\ ret1' = limit_message_history(arg_messages, arg_max)
    /\ UNCHANGED <<arg_messages, arg_max, ret2, sessionVars>>

CallLimitAgain ==
    /\ pass = 1 /\ fn = "limit"
    /\ pass' = 2
    /\ ret2' = limit_message_history(ret1, arg_max)
    /\ UNCHANGED <<arg_messages, arg_max, fn, ret1, sessionVars>>

CallValidate ==
    /\ pass = 0
    /\ fn' = "validate"
    /\ pass' = 1
    /\ ret1' = validate_message_history(arg_messages)
    /\ UNCHANGED <<arg_messages, arg_max, ret2, sessionVars>>

CallValidateAgain ==
    /\ pass = 1 /\ fn = "validate"
    /\ pass' = 2
    /\ ret2' = validate_message_history(ret1)
    /\ UNCHANGED <<arg_messages, arg_max, fn, ret1, sessionVars>>

FnNext == CallLimit \/ CallLimitAgain \/ CallValidate \/ CallValidateAgain

FnSpec == FnInit /\ [][FnNext]_vars

(* ============================ properties ============================== *)
LastN(s, n) == SubSeq(s, Len(s) - n + 1, Len(s))

NumKind(msg, kind) == Cardinality({k \in DOMAIN msg : msg[k] = kind})
HasToolCall(msg) == NumKind(msg, "tool-call") > 0
HasToolReturn(msg) == NumKind(msg, "tool-return") > 0
NoToolPart(msg) == ~HasToolCall(msg) /\ ~HasToolReturn(msg)
NonEmptyMsg(msg) == msg # <<>>

RECURSIVE Flatten(_)
Flatten(h) == IF h = <<>> THEN <<>> ELSE Head(h) \o Flatten(Tail(h))

\* every tool-return Part finds a still unmatched earlier tool-call Part (FIFO)
RECURSIVE NoOrphanFrom(_, _, _)
NoOrphanFrom(parts, i, pending) ==
    IF i > Len(parts) THEN TRUE
    ELSE IF parts[i] = "tool-call" THEN NoOrphanFrom(parts, i + 1, pending + 1)
    ELSE IF parts[i] = "tool-return"
         THEN pending > 0 /\ NoOrphanFrom(parts, i + 1, pending - 1)
    ELSE NoOrphanFrom(parts, i + 1, pending)

NoOrphanReturn(h) == NoOrphanFrom(Flatten(h), 1, 0)

\* a is obtained from b by deleting messages
RECURSIVE SubseqFrom(_, _, _, _)
SubseqFrom(a, i, b, j) ==
    IF i > Len(a) THEN TRUE
    ELSE IF j > Len(b) THEN FALSE
    ELSE IF a[i] = b[j] THEN SubseqFrom(a, i + 1, b, j + 1)
    ELSE SubseqFrom(a, i, b, j + 1)

IsSubseq(a, b) == SubseqFrom(a, 1, b, 1)

\* the window the pre-turn truncation is to produce
Window(stored, max) ==
    SubSeq(stored, Len(stored) - Min(Len(stored), max) + 1, Len(stored))

\* tool calls of w[1..i-1] still pending when w[i] is reached
RECURSIVE PendingBefore(_, _)
PendingBefore(w, i) ==
    IF i = 1 THEN 0
    ELSE LET p == PendingBefore(w, i - 1)
             m == w[i - 1]
         IN IF HasToolCall(m) THEN p + NumKind(m, "tool-call")
            ELSE IF HasToolReturn(m) THEN Max(p - NumKind(m, "tool-return"), 0)
            ELSE p

OrphanAt(w, i) ==
    HasToolReturn(w[i]) /\ ~HasToolCall(w[i]) /\ PendingBefore(w, i) = 0

RECURSIVE PickFrom(_, _, _)
PickFrom(w, idx, i) ==
    IF i > Len(w) THEN <<>>
    ELSE (IF i \in idx THEN <<w[i]>> ELSE <<>>) \o PickFrom(w, idx, i + 1)

\* the messages of the window with a Part that are not orphaned tool returns
HandedOver(w) ==
    PickFrom(w, {i \in 1..Len(w) : w[i] # <<>> /\ ~OrphanAt(w, i)}, 1)

\* a step of the turn in flight other than the commit of lines 171-175
TurnStepBeforeCommit ==
    /\ pc' # pc \/ chunks' # chunks
    /\ ~(pc = "Streaming" /\ pc' = "Idle" /\ outcome' = "done")

(* C1: limit_message_history(h, max) is exactly the last min(len(h), max)  *)
(* messages of h, in order (so h itself when len(h) <= max).               *)
C1_LimitIsLastMin ==
    (fn = "limit" /\ pass >= 1)
        => ret1 = LastN(arg_messages, Min(Len(arg_messages), arg_max))

(* C2: the output of validate_message_history has no orphaned tool-return  *)
(* Part: each one is preceded by a tool-call Part still unmatched (FIFO).  *)
C2_NoOrphanedReturnPart ==
    (fn = "validate" /\ pass >= 1) => NoOrphanReturn(ret1)

(* C3: validate_message_history keeps every message without tool-call and  *)
(* tool-return Parts (an empty Part list included), and its output is a    *)
(* subsequence of its input.                                               *)
C3_NonToolKeptAndSubsequence ==
    (fn = "validate" /\ pass >= 1)
        => /\ IsSubseq(ret1, arg_messages)
           /\ SelectSeq(ret1, NoToolPart) = SelectSeq(arg_messages, NoToolPart)

(* C4: validate_message_history is idempotent: a second pass over a        *)
(* validated history returns it unchanged.                                 *)
C4_ValidateIdempotent ==
    (fn = "validate" /\ pass = 2) => ret2 = ret1

C4_Witness ==
    /\ fn = "validate" /\ pass = 2
    /\ ret1 # arg_messages /\ ret1 # <<>>
    /\ \E i \in 1..Len(ret1) : HasToolReturn(ret1[i])
    /\ ret2 = ret1

(* C5: limit_message_history is idempotent for a given bound, and a call   *)
(* leaves the list it was given as it was.                                 *)
C5_LimitIdempotentPure ==
    [][(fn' = "limit" /\ pass' # pass)
          => /\ arg_messages' = arg_messages
             /\ (pass' = 2 => ret2' = ret1')]_vars

C5_Witness ==
    /\ fn = "limit" /\ pass = 2
    /\ arg_max > 0 /\ Len(arg_messages) > arg_max
    /\ Len(ret1) = arg_max /\ ret2 = ret1

(* C6: a turn that fails or is cancelled before its stream is exhausted    *)
(* leaves the stored History as it was: no step of a turn other than the   *)
(* commit after the stream changes st.session_state.messages.              *)
C6_OnlyCommitChangesHistory ==
    [][TurnStepBeforeCommit => messages' = messages]_vars

C6_Witness ==
    /\ pc = "Idle" /\ outcome \in {"failed", "cancelled"}
    /\ chunks > 0 /\ ~cleared
    /\ Len(messages) = custom_max_messages
    /\ validate_message_history(messages) # messages

C8_IdleHistoryBounded ==
    pc = "Idle" => Len(messages) <= custom_max_messages

C8_Witness ==
    /\ pc = "Idle" /\ outcome = "done"
    /\ custom_max_messages = SliderMin
    /\ Len(messages) = custom_max_messages

(* C9: the history handed to the agent at the start of a turn is the       *)
(* truncated window of the stored History without its orphaned tool-return *)
(* messages; every other message with a Part is handed over, in order.     *)
C9_HandedIsValidatedWindow ==
    [][(pc = "Idle" /\ pc' = "Streaming")
          => SelectSeq(validated_messages', NonEmptyMsg)
                = HandedOver(Window(messages, custom_max_messages))]_vars

C9_Witness ==
    /\ pc = "Streaming" /\ limited_messages = messages
    /\ Len(messages) >= 3
    /\ messages[1] = <<"tool-call">> /\ messages[2] = <<"tool-return">>
    /\ messages[3] = <<"tool-return">>
    /\ validated_messages = SubSeq(messages, 1, 2) \o SubSeq(messages, 4, Len(messages))

(* C10: in a sequential run the pre-turn truncation is the identity and    *)
(* the stored History is within the bound and unchanged by the pre-turn    *)
(* truncation and validation, whatever the validation filters out.         *)
C10_PreTurnLimitIsIdentity ==
    pc = "Streaming"
        => /\ limited_messages = messages
           /\ Len(messages) <= custom_max_messages

C10_Witness ==
    /\ pc = "Streaming" /\ chunks > 0
    /\ Len(messages) = custom_max_messages
    /\ messages[1] = <<"tool-return">>
    /\ limited_messages = messages
    /\ validated_messages = Tail(messages)

====
